---- MODULE Spec2Model ----
(***************************************************************************)
(* Model of group/lib/libgroup.c: the client library of the group          *)
(* membership daemon.  A handle is the address of a heap-allocated          *)
(* struct group_handle; the transport is a unix stream socket named by a   *)
(* descriptor.  Strings are sequences of one-character strings, so that    *)
(* formatting (sprintf), tokenising (make_args) and parsing (atoi) are      *)
(* computed and not assumed.                                                *)
(***************************************************************************)
EXTENDS Integers, Sequences, FiniteSets, TLC

VARIABLES
    mem,          \* heap: address -> struct group_handle (content survives free)
    allocated,    \* addresses currently malloc'ed
    fds,          \* descriptors currently open in the process
    sent,         \* descriptor -> bytes the service has received on that connection
    inbox,        \* descriptor -> lines the service sent that were not read yet
    peer_closed,  \* descriptor -> the service closed its end
    nsends,       \* lines the service has sent so far
    handles,      \* handles the caller got from group_init, in order, with
                  \*   a note of whether group_exit succeeded on them and
                  \*   of the callbacks and the private pointer group_init
                  \*   was given
    caller_cbs,   \* what the caller's group_callbacks_t holds, the object
                  \*   it passes the address of to group_init
    last,         \* record of the last library call (observation only);
                  \*   last.errno is the value the call left in errno, 0
                  \*   when it did not assign errno; last.changed: a
                  \*   handler ran while the caller's callback set was not
                  \*   what it was at the handle's group_init
    crashed       \* the process was killed by a fault

vars == <<mem, allocated, fds, sent, inbox, peer_closed, nsends, handles,
          caller_cbs, last, crashed>>

----------------------------------------------------------------------------
(* Bounds of the model *)

NumAddrs == 1      \* heap blocks malloc can hand out for a struct group_handle
NumFds == 1        \* descriptors the process can have open for sockets
MaxOpens == 2      \* successful group_init calls in one run
MaxSends == 2      \* lines the service sends in one run
MaxShort == 1      \* bytes by which a short write may fall short

----------------------------------------------------------------------------
(* Program constants *)

LIBGROUP_MAGIC == 1735554416    \* 0x67727570
MAXARGS == 100
MAXLINE == 256
PROG_NAME_SIZE == 32            \* char prog_name[32]
EINVAL == 22
NULL == 0

Addrs == 1..NumAddrs
Fds == 3..(2 + NumFds)          \* 0, 1, 2 are stdin, stdout, stderr
\* errno after a failed system call
E == [IO |-> 5, BADF |-> 9, NOMEM |-> 12, MFILE |-> 24, PIPE |-> 32,
      CONNREFUSED |-> 111]
\* What the allocator may leave in the first word of a freed block: neither
\* zero nor the magic number.
FREED_GARBAGE == LIBGROUP_MAGIC + 1

----------------------------------------------------------------------------
(* Strings *)

STR_join == <<"j", "o", "i", "n", " ">>
STR_leave == <<"l", "e", "a", "v", "e", " ">>
STR_done == <<"d", "o", "n", "e", " ">>
STR_setup == <<"s", "e", "t", "u", "p", " ">>
STR_stop == <<"s", "t", "o", "p">>
STR_start == <<"s", "t", "a", "r", "t">>
STR_finish == <<"f", "i", "n", "i", "s", "h">>
STR_terminate == <<"t", "e", "r", "m", "i", "n", "a", "t", "e">>
STR_set_id == <<"s", "e", "t", "_", "i", "d">>
NAME_g1 == <<"g", "1">>
NAME_g2 == <<"g", "2">>
PROG_fenced == <<"f", "e", "n", "c", "e", "d">>
PROG_p == <<"p">>
\* A program name one character longer than the prog_name field.
PROG_long ==
    <<"f", "e", "n", "c", "e", "d", "_", "o", "n", "_", "a", "_", "n",
    "o", "d", "e", "_", "w", "i", "t", "h", "_", "a", "_", "l", "o",
    "n", "g", "_", "n", "a", "m", "e">>
LINE_stop == <<"s", "t", "o", "p", " ", "g", "1">>
LINE_start3 == <<"s", "t", "a", "r", "t", " ", "g", "1", " ", "1", " ", "5", " ", "1", "0", " ", "1", "1", " ", "1", "2">>
LINE_start2 == <<"s", "t", "a", "r", "t", " ", "g", "2", " ", "2", " ", "9", " ", "1", "2", " ", "1", "0">>
LINE_start0 == <<"s", "t", "a", "r", "t", " ", "g", "1", " ", "1", " ", "5">>
LINE_finish == <<"f", "i", "n", "i", "s", "h", " ", "g", "1", " ", "7">>
LINE_terminate == <<"t", "e", "r", "m", "i", "n", "a", "t", "e", " ", "g", "2">>
LINE_set_id == <<"s", "e", "t", "_", "i", "d", " ", "g", "1", " ", "3">>
LINE_unknown == <<"f", "r", "o", "b", "n", "i", "c", "a", "t", "e", " ", "x", " ", "y">>
LINE_stops == <<"s", "t", "o", "p", "s", " ", "g", "1">>
LINE_badnum == <<"s", "e", "t", "_", "i", "d", " ", "g", "1", " ", "x", "7">>
LINE_short_finish == <<"f", "i", "n", "i", "s", "h", " ", "g", "1">>
LINE_short_start == <<"s", "t", "a", "r", "t", " ", "g", "1">>
LINE_short_stop == <<"s", "t", "o", "p">>

Digits == <<"0", "1", "2", "3", "4", "5", "6", "7", "8", "9">>

IsDigit(c) == \E d \in 1..10 : Digits[d] = c

DigitVal(c) == (CHOOSE d \in 1..10 : Digits[d] = c) - 1

IsSpace(c) == c = " "

\* The digits of a natural number, most significant first.
RECURSIVE UDecimal(_)
UDecimal(n) ==
    IF n < 10 THEN <<Digits[n + 1]>>
    ELSE UDecimal(n \div 10) \o <<Digits[(n % 10) + 1]>>

\* printf's %d conversion.
Decimal(n) == IF n < 0 THEN <<"-">> \o UDecimal(0 - n) ELSE UDecimal(n)

\* The value of the longest run of digits of s that starts at position i.
RECURSIVE AtoiDigits(_, _, _)
AtoiDigits(s, i, acc) ==
    IF i > Len(s) \/ ~IsDigit(s[i]) THEN acc
    ELSE AtoiDigits(s, i + 1, acc * 10 + DigitVal(s[i]))

RECURSIVE SkipSpace(_, _)
SkipSpace(s, i) ==
    IF i <= Len(s) /\ IsSpace(s[i]) THEN SkipSpace(s, i + 1) ELSE i

\* atoi(3): leading white space, an optional sign, then digits up to the
\* first character that is not one; 0 when there is no digit.
atoi(s) ==
    LET i == SkipSpace(s, 1) IN
    IF i <= Len(s) /\ s[i] = "-" THEN 0 - AtoiDigits(s, i + 1, 0)
    ELSE IF i <= Len(s) /\ s[i] = "+" THEN AtoiDigits(s, i + 1, 0)
    ELSE AtoiDigits(s, i, 0)

\* The position of the first sep in s at or after position i, 0 if none.
RECURSIVE strchr(_, _, _)
strchr(s, i, sep) ==
    IF i > Len(s) THEN 0
    ELSE IF s[i] = sep THEN i
    ELSE strchr(s, i + 1, sep)

\* The tokens of s from position i on, cut at every sep, at most n of them.
RECURSIVE Tokens(_, _, _, _)
Tokens(s, i, sep, n) ==
    LET p == strchr(s, i, sep) IN
    IF p = 0 \/ n <= 1 THEN <<SubSeq(s, i, IF p = 0 THEN Len(s) ELSE p - 1)>>
    ELSE <<SubSeq(s, i, p - 1)>> \o Tokens(s, p + 1, sep, n - 1)

\* make_args(buf, &argc, argv, sep): argv[0] is the start of the line, every
\* sep starts a new token, at most MAXARGS tokens.  argv is 1-based here:
\* the C argv[k] is argv[k + 1].
make_args(buf, sep) ==
    LET toks == Tokens(buf, 1, sep, MAXARGS) IN
    [argc |-> Len(toks), argv |-> toks]

----------------------------------------------------------------------------
(* Inputs *)

GroupNames == {NAME_g1, NAME_g2}
EventNumbers == {7, 12}

\* A group_callbacks_t: one function per event kind.
CallbackSets ==
    {[stop |-> "stopA", start |-> "startA", finish |-> "finishA",
      terminate |-> "terminateA", set_id |-> "set_idA"],
     [stop |-> "stopB", start |-> "startB", finish |-> "finishB",
      terminate |-> "terminateB", set_id |-> "set_idB"]}

\* The arguments of a group_init call.
InitInputs ==
    {[private |-> "ctxA", prog_name |-> PROG_fenced, level |-> 0,
      cbs |-> CHOOSE c \in CallbackSets : c.stop = "stopA"],
     [private |-> "ctxB", prog_name |-> PROG_p, level |-> 1,
      cbs |-> CHOOSE c \in CallbackSets : c.stop = "stopB"],
     [private |-> "ctxB", prog_name |-> PROG_long, level |-> 1,
      cbs |-> CHOOSE c \in CallbackSets : c.stop = "stopB"]}

\* The events the service reports.  Fields an event kind does not have are
\* 0 or empty.
Event(kind, name, type, nr, ids) ==
    [kind |-> kind, name |-> name, type |-> type, nr |-> nr, ids |-> ids]

GroupEvents ==
    {Event("stop", NAME_g1, 0, 0, <<>>),
     Event("start", NAME_g1, 1, 5, <<10, 11, 12>>),
     Event("start", NAME_g2, 2, 9, <<12, 10>>),
     Event("start", NAME_g1, 1, 5, <<>>),
     Event("finish", NAME_g1, 0, 7, <<>>),
     Event("terminate", NAME_g2, 0, 0, <<>>),
     Event("set_id", NAME_g1, 0, 3, <<>>)}

\* " n1 n2 ..." for a sequence of integers.
RECURSIVE EncodeIds(_)
EncodeIds(ids) ==
    IF ids = <<>> THEN <<>>
    ELSE <<" ">> \o Decimal(Head(ids)) \o EncodeIds(Tail(ids))

\* The line the service writes for an event.
EncodeEvent(e) ==
    IF e.kind = "stop" THEN STR_stop \o <<" ">> \o e.name
    ELSE IF e.kind = "start"
    THEN STR_start \o <<" ">> \o e.name \o <<" ">> \o Decimal(e.type)
         \o <<" ">> \o Decimal(e.nr) \o EncodeIds(e.ids)
    ELSE IF e.kind = "finish"
    THEN STR_finish \o <<" ">> \o e.name \o <<" ">> \o Decimal(e.nr)
    ELSE IF e.kind = "terminate" THEN STR_terminate \o <<" ">> \o e.name
    ELSE STR_set_id \o <<" ">> \o e.name \o <<" ">> \o Decimal(e.nr)

\* Lines that are no well-formed event: an unknown action, an action that
\* only begins like a known one, a number that is none, and lines that lack
\* arguments.
OtherLines ==
    {LINE_unknown, LINE_stops, LINE_badnum, LINE_short_finish,
     LINE_short_start, LINE_short_stop}

\* The lines the service may send.
EventLines == {EncodeEvent(e) : e \in GroupEvents} \cup OtherLines

\* The lines the service may send after its first one.
LaterLines == {LINE_terminate}

\* Outcomes of an operation whose behaviour the C standard leaves undefined.
Undefined == {"fault", "silent"}

\* Values an int may be found to hold when it was computed from an
\* uninitialised pointer.
GarbageInts == {0, 77}

\* An argv slot that make_args did not fill.
WILD == <<"?">>

----------------------------------------------------------------------------
(* State *)

ZeroHandle ==
    [magic |-> 0, fd |-> -1, level |-> 0, private |-> "none",
     cbs |-> CHOOSE c \in CallbackSets : c.stop = "stopA", prog_name |-> <<>>]

NoCall ==
    [op |-> "none", i |-> 0, stale |-> FALSE, rv |-> 0, nread |-> 0,
     nwrite |-> 0, wrote |-> <<>>, line |-> <<>>, calls |-> <<>>,
     name |-> <<>>, nr |-> 0, rd |-> 0, taken |-> 0, step |-> "none",
     errno |-> 0, changed |-> FALSE]

Init ==
    /\ mem = [a \in Addrs |-> ZeroHandle]
    /\ allocated = {}
    /\ fds = {}
    /\ sent = [f \in Fds |-> <<>>]
    /\ inbox = [f \in Fds |-> <<>>]
    /\ peer_closed = [f \in Fds |-> FALSE]
    /\ nsends = 0
    /\ handles = <<>>
    /\ caller_cbs \in CallbackSets
    /\ last = NoCall
    /\ crashed = FALSE

\* The handle the caller passes: NULL, or the i-th one group_init gave it.
Handle(i) == IF i = 0 THEN NULL ELSE handles[i].h

\* group_exit has succeeded on the i-th handle.
Stale(i) == i # 0 /\ handles[i].exited

Min(a, b) == IF a < b THEN a ELSE b

\* VALIDATE_HANDLE that tests the pointer only.
validate_pointer_only(h) == h # NULL

\* VALIDATE_HANDLE(h) falls through (TRUE) or returns -1 with EINVAL (FALSE).
VALIDATE_HANDLE(h) == ~(h = NULL \/ mem[h].magic # LIBGROUP_MAGIC)

\* The return of VALIDATE_HANDLE on an invalid handle: errno = EINVAL,
\* return -1, nothing else.
InvalidHandle(op, i) ==
    /\ last' = [NoCall EXCEPT !.op = op, !.i = i, !.stale = Stale(i),
                              !.rv = -1, !.step = "validate",
                              !.errno = EINVAL]
    /\ UNCHANGED <<mem, allocated, fds, sent, inbox, peer_closed, nsends,
                   handles, crashed>>

\* The process is killed inside the call and the call does not return: its
\* memory and its descriptors are gone.
Fault(op, i, line) ==
    /\ crashed' = TRUE
    /\ last' = [NoCall EXCEPT !.op = op, !.i = i, !.stale = Stale(i),
                              !.line = line, !.step = "fault"]
    /\ mem' = [a \in Addrs |-> ZeroHandle]
    /\ allocated' = {}
    /\ fds' = {}
    /\ sent' = [f \in Fds |-> <<>>]
    /\ inbox' = [f \in Fds |-> <<>>]
    /\ peer_closed' = [f \in Fds |-> FALSE]
    /\ handles' = <<>>
    /\ UNCHANGED nsends

\* What write(fd, buf, strlen(buf)) may return: -1, or the number of bytes
\* taken, which on a stream socket may be less than asked (here by at most
\* MaxShort bytes).
write_results(F, fd, buf) ==
    IF fd \notin F THEN {-1}
    ELSE IF Len(buf) = 0 THEN {-1, 0}
    ELSE {-1} \cup {n \in 1..Len(buf) : n >= Len(buf) - MaxShort}

\* The bytes that reach the service when write returned rv.
Written(buf, rv) == IF rv > 0 THEN SubSeq(buf, 1, rv) ELSE <<>>

\* free(h): the block is returned to the allocator, which leaves its content
\* as it was or overwrites it.
free(M, h, clobber) ==
    [M EXCEPT ![h] = IF clobber
                     THEN [ZeroHandle EXCEPT !.magic = FREED_GARBAGE]
                     ELSE @]

----------------------------------------------------------------------------
(* group_join, group_leave, group_done *)

\* char buf[MAXLINE] after memset(buf, 0, sizeof(buf)): the empty string.
memset_buf == <<>>

\* sprintf("join %s", name): the destination is the string literal and the
\* format is name.  buf is not an argument of the call and keeps its content.
\* Storing into the literal is undefined: the process faults (the literal is
\* in read-only storage) or goes on (it is writable).
sprintf_join(buf, name) == buf

\* sprintf("leave %s", name): as in group_join.
sprintf_leave(buf, name) == buf

\* sprintf("done %s %d", name, event_nr): as in group_join.
sprintf_done(buf, name, event_nr) == buf

\* rv = write(h->fd, buf, strlen(buf)); return rv;
write_and_return(op, i, h, buf, name, nr) ==
    LET fd == mem[h].fd IN
    \E rv \in write_results(fds, fd, buf) :
    /\ sent' = IF fd \in fds
               THEN [sent EXCEPT ![fd] = @ \o Written(buf, rv)]
               ELSE sent
    /\ last' = [NoCall EXCEPT !.op = op, !.i = i, !.stale = Stale(i),
                              !.rv = rv, !.nwrite = 1,
                              !.wrote = Written(buf, rv), !.line = buf,
                              !.name = name, !.nr = nr, !.step = "write",
                              !.errno = IF rv >= 0 THEN 0
                                        ELSE IF fd \in fds THEN E.PIPE
                                        ELSE E.BADF]
    /\ UNCHANGED <<mem, allocated, fds, inbox, peer_closed, nsends, handles,
                   crashed>>

group_join(i, name) ==
    LET h == Handle(i) IN
    /\ ~crashed
    /\ IF ~VALIDATE_HANDLE(h) THEN InvalidHandle("group_join", i)
       ELSE \/ Fault("group_join", i, <<>>)
            \/ write_and_return("group_join", i, h,
                                sprintf_join(memset_buf, name), name, 0)

group_leave(i, name) ==
    LET h == Handle(i) IN
    /\ ~crashed
    /\ IF ~VALIDATE_HANDLE(h) THEN InvalidHandle("group_leave", i)
       ELSE \/ Fault("group_leave", i, <<>>)
            \/ write_and_return("group_leave", i, h,
                                sprintf_leave(memset_buf, name), name, 0)

group_done(i, name, event_nr) ==
    LET h == Handle(i) IN
    /\ ~crashed
    /\ IF ~VALIDATE_HANDLE(h)
       THEN InvalidHandle("group_done", i)
       ELSE \/ Fault("group_done", i, <<>>)
            \/ write_and_return("group_done", i, h,
                                sprintf_done(memset_buf, name, event_nr),
                                name, event_nr)

----------------------------------------------------------------------------
(* group_init *)

\* strncpy(dst, src, n) read back as a string: at most n characters of src.
strncpy(src, n) == SubSeq(src, 1, Min(Len(src), n))

\* sprintf(buf, "setup %s %d", prog_name, level)
sprintf_setup(prog_name, level) ==
    STR_setup \o prog_name \o <<" ">> \o Decimal(level)

\* socket(): the lowest descriptor that is not open.
LowestFree(F) == CHOOSE f \in Fds \ F : \A g \in Fds \ F : f <= g

\* The fail label without its close(h->fd).
fail_without_close(F, A, h, fd) == [fds |-> F, allocated |-> A \ {h}]

\* The fail label: close(h->fd); free(h).  F and A are the open descriptors
\* and the allocated blocks when the label is reached.
fail(F, A, h, fd) == [fds |-> F \ {fd}, allocated |-> A \ {h}]

\* The struct after lines 117-123; s is what socket returned.
init_handle(in, s) ==
    [magic |-> LIBGROUP_MAGIC, private |-> in.private, cbs |-> in.cbs,
     level |-> in.level, prog_name |-> strncpy(in.prog_name, PROG_NAME_SIZE),
     fd |-> s]

\* return NULL after malloc failed or after the fail label.
init_failed(step, e, buf) ==
    last' = [NoCall EXCEPT !.op = "group_init", !.rv = NULL, !.step = step,
                           !.nwrite = IF step = "write" THEN 1 ELSE 0,
                           !.line = buf, !.errno = e]

\* goto fail from the step named; F: the descriptors open at that point.
init_goto_fail(in, m, s, F, step, e) ==
    \E clobber \in BOOLEAN :
        LET r == fail(F, allocated \cup {m}, m, s) IN
        /\ mem' = free([mem EXCEPT ![m] = init_handle(in, s)], m, clobber)
        /\ allocated' = r.allocated
        /\ fds' = r.fds
        /\ init_failed(step, e, sprintf_setup(in.prog_name, in.level))
        /\ UNCHANGED <<sent, inbox, peer_closed, nsends, handles, crashed>>

\* The value of rv < 0 at line 140.
handshake_failed(rv, buf) == rv < 0

\* The environment decides what malloc, socket, connect and write return.
group_init(in) ==
    /\ ~crashed
    /\ Len(handles) < MaxOpens
    /\ \/ \* malloc returns NULL
          /\ init_failed("malloc", E.NOMEM, <<>>)
          /\ UNCHANGED <<mem, allocated, fds, sent, inbox, peer_closed,
                         nsends, handles, crashed>>
       \/ \E m \in Addrs \ allocated :
          \/ \* socket fails
             init_goto_fail(in, m, -1, fds, "socket", E.MFILE)
          \/ /\ fds # Fds
             /\ LET s == LowestFree(fds)
                    F1 == fds \cup {s}
                    buf == sprintf_setup(in.prog_name, in.level)
                IN
                \/ \* connect fails
                   init_goto_fail(in, m, s, F1, "connect", E.CONNREFUSED)
                \/ \E w \in write_results(F1, s, buf) :
                   IF handshake_failed(w, buf)
                   THEN init_goto_fail(in, m, s, F1, "write", E.PIPE)
                   ELSE /\ mem' = [mem EXCEPT ![m] = init_handle(in, s)]
                        /\ allocated' = allocated \cup {m}
                        /\ fds' = F1
                        /\ sent' = [sent EXCEPT ![s] = Written(buf, w)]
                        /\ inbox' = [inbox EXCEPT ![s] = <<>>]
                        /\ peer_closed' = [peer_closed EXCEPT ![s] = FALSE]
                        /\ handles' = Append(handles,
                                             [h |-> m, exited |-> FALSE,
                                              cbs |-> in.cbs,
                                              private |-> in.private])
                        /\ last' = [NoCall EXCEPT !.op = "group_init",
                                                  !.rv = m,
                                                  !.i = Len(handles) + 1,
                                                  !.nwrite = 1,
                                                  !.wrote = Written(buf, w),
                                                  !.line = buf,
                                                  !.name = in.prog_name,
                                                  !.step = "return"]
                        /\ UNCHANGED <<nsends, crashed>>

----------------------------------------------------------------------------
(* group_exit, group_get_fd *)

\* The per-connection state after close(fd): the connection is gone.
Closed(chan, fd, empty) ==
    IF fd \in fds THEN [chan EXCEPT ![fd] = empty] ELSE chan

\* free of a block that is not allocated (a second free) is undefined: the
\* allocator aborts the process or goes on.
group_exit(i) ==
    LET h == Handle(i) IN
    /\ ~crashed
    /\ IF ~VALIDATE_HANDLE(h) THEN InvalidHandle("group_exit", i)
       ELSE
         \/ h \notin allocated /\ Fault("group_exit", i, <<>>)
         \/ \E clobber \in BOOLEAN :
            LET fd == mem[h].fd IN
            /\ mem' = free([mem EXCEPT ![h].magic = 0], h, clobber)
            /\ fds' = fds \ {fd}
            /\ sent' = Closed(sent, fd, <<>>)
            /\ inbox' = Closed(inbox, fd, <<>>)
            /\ peer_closed' = Closed(peer_closed, fd, FALSE)
            /\ allocated' = allocated \ {h}
            /\ handles' = [k \in DOMAIN handles |->
                             IF handles[k].h = h
                             THEN [handles[k] EXCEPT !.exited = TRUE]
                             ELSE handles[k]]
            /\ last' = [NoCall EXCEPT !.op = "group_exit", !.i = i,
                                      !.stale = Stale(i), !.rv = 0,
                                      !.step = "return"]
            /\ UNCHANGED <<nsends, crashed>>

group_get_fd(i) ==
    LET h == Handle(i) IN
    /\ ~crashed
    /\ IF ~VALIDATE_HANDLE(h) THEN InvalidHandle("group_get_fd", i)
       ELSE /\ last' = [NoCall EXCEPT !.op = "group_get_fd", !.i = i,
                                      !.stale = Stale(i), !.rv = mem[h].fd,
                                      !.step = "return"]
            /\ UNCHANGED <<mem, allocated, fds, sent, inbox, peer_closed,
                           nsends, handles, crashed>>

----------------------------------------------------------------------------
(* group_dispatch *)

\* One invocation of a callback: the function and the arguments it got.
\* Arguments the callback does not have are 0 or empty.
Call(fn, h, private, name, a1, a2, count, nodeids) ==
    [fn |-> fn, h |-> h, private |-> private, name |-> name, a1 |-> a1,
     a2 |-> a2, count |-> count, nodeids |-> nodeids]

\* The loop storing each id in front of the ones before it.
RECURSIVE nodeids_loop_reversed(_, _, _, _)
nodeids_loop_reversed(i, argc, argv, nodeids) ==
    IF i < argc
    THEN nodeids_loop_reversed(i + 1, argc, argv,
                               <<atoi(argv[i + 1])>> \o nodeids)
    ELSE nodeids

\* for (i = 4; i < argc; i++) nodeids[i-4] = atoi(argv[i]);
\* (the malloc of nodeids is taken to succeed)
RECURSIVE nodeids_loop(_, _, _, _)
nodeids_loop(i, argc, argv, nodeids) ==
    IF i < argc
    THEN nodeids_loop(i + 1, argc, argv, Append(nodeids, atoi(argv[i + 1])))
    ELSE nodeids

\* The chain ending in an else that takes any other action for set_id.
unrecognised_as_set_id(hs, h, argc, argv) ==
    [fault |-> FALSE,
     calls |-> <<Call(hs.cbs.set_id, h, hs.private, argv[1], 0, 0, 0, <<>>)>>]

\* The end of the strcmp chain: no branch for any other action.
unrecognised(hs, h, argc, argv) == [fault |-> FALSE, calls |-> <<>>]

\* A struct that kept the cbs pointer: the callbacks are what the caller's
\* object holds when they are called.
cbs_of_caller(hs, caller) == caller

\* h->cbs: the copy line 119 stored in the struct, whatever the caller's
\* object holds by now.
cbs_of_handle(hs, caller) == hs.cbs

\* The strcmp chain of group_dispatch applied to the tokens of the line.
\* Result: whether the process faulted, and the callbacks invoked in order.
\* argv[k] of the C code is argv[k + 1]; a slot k >= argc was never written:
\* passing it on hands the callback a wild pointer, atoi of it faults (u =
\* "fault") or yields some int g.
dispatch_event(hs, h, argc, argv, u, g) ==
    LET act == argv[1]
        str(k) == IF k < argc THEN argv[k + 1] ELSE WILD
        num(k) == IF k < argc THEN atoi(argv[k + 1]) ELSE g
        wild(K) == \E k \in K : k >= argc
        faulted == [fault |-> TRUE, calls |-> <<>>]
        one(c) == [fault |-> FALSE, calls |-> <<c>>]
    IN
    IF act = STR_stop
    THEN one(Call(hs.cbs.stop, h, hs.private, str(1), 0, 0, 0, <<>>))
    ELSE IF act = STR_start
    THEN IF wild({2, 3}) /\ u = "fault" THEN faulted
         ELSE one(Call(hs.cbs.start, h, hs.private, str(1), num(2), num(3),
                       argc - 4, nodeids_loop(4, argc, argv, <<>>)))
    ELSE IF act = STR_finish
    THEN IF wild({2}) /\ u = "fault" THEN faulted
         ELSE one(Call(hs.cbs.finish, h, hs.private, str(1), num(2), 0, 0,
                       <<>>))
    ELSE IF act = STR_terminate
    THEN one(Call(hs.cbs.terminate, h, hs.private, str(1), 0, 0, 0, <<>>))
    ELSE IF act = STR_set_id
    THEN IF wild({2}) /\ u = "fault" THEN faulted
         ELSE one(Call(hs.cbs.set_id, h, hs.private, str(1), num(2), 0, 0,
                       <<>>))
    ELSE unrecognised(hs, h, argc, argv)

\* The bytes of the unread lines: the socket is a SOCK_STREAM one and keeps
\* no boundary between what the peer wrote.
RECURSIVE Stream(_)
Stream(lines) ==
    IF lines = <<>> THEN <<>> ELSE Head(lines) \o Stream(Tail(lines))

\* The number of unread lines that the first n bytes of the stream reach
\* into.
RECURSIVE LinesIn(_, _)
LinesIn(lines, n) ==
    IF lines = <<>> \/ n <= 0 THEN 0
    ELSE 1 + LinesIn(Tail(lines), n - Len(Head(lines)))

\* What rv = read(h->fd, &buf, sizeof(buf)) may do: fail, report end of
\* file, or take the unread bytes, at most MAXLINE of them; rest is what
\* stays unread, taken the number of lines the bytes come from.  With
\* nothing to read and the peer still there the call blocks (no result).
read_results(fd) ==
    LET failed == [rv |-> -1, buf |-> memset_buf, taken |-> 0,
                   rest |-> IF fd \in fds THEN inbox[fd] ELSE <<>>]
    IN
    IF fd \notin fds THEN {failed}
    ELSE IF inbox[fd] # <<>>
    THEN LET bytes == Stream(inbox[fd])
             n == Min(Len(bytes), MAXLINE)
         IN  {failed,
              [rv |-> n, buf |-> SubSeq(bytes, 1, n),
               taken |-> LinesIn(inbox[fd], n),
               rest |-> IF n = Len(bytes) THEN <<>>
                        ELSE <<SubSeq(bytes, n + 1, Len(bytes))>>]}
    ELSE IF peer_closed[fd]
    THEN {failed, [rv |-> 0, buf |-> memset_buf, taken |-> 0, rest |-> <<>>]}
    ELSE {failed}

\* The value group_dispatch returns after the strcmp chain; rd is what read
\* returned.
dispatch_return(rd) == 0

group_dispatch(i) ==
    LET h == Handle(i) IN
    /\ ~crashed
    /\ IF ~VALIDATE_HANDLE(h) THEN InvalidHandle("group_dispatch", i)
       ELSE \E rd \in read_results(mem[h].fd),
               u \in Undefined :
            \E g \in (IF u = "silent" THEN GarbageInts ELSE {0}) :
            LET fd == mem[h].fd
                args == make_args(rd.buf, " ")
                hs == [mem[h] EXCEPT !.cbs = cbs_of_handle(mem[h], caller_cbs)]
                ev == dispatch_event(hs, h, args.argc, args.argv, u, g)
            IN
            IF ev.fault THEN Fault("group_dispatch", i, rd.buf)
            ELSE /\ inbox' = IF rd.taken > 0
                             THEN [inbox EXCEPT ![fd] = rd.rest]
                             ELSE inbox
                 /\ last' = [NoCall EXCEPT !.op = "group_dispatch", !.i = i,
                                           !.stale = Stale(i),
                                           !.rv = dispatch_return(rd.rv),
                                           !.nread = 1, !.rd = rd.rv,
                                           !.line = rd.buf,
                                           !.taken = rd.taken,
                                           !.calls = ev.calls,
                                           !.changed =
                                             /\ i # 0
                                             /\ ev.calls # <<>>
                                             /\ caller_cbs # handles[i].cbs,
                                           !.step = "return",
                                           !.errno =
                                             IF rd.rv >= 0 THEN 0
                                             ELSE IF fd \in fds THEN E.IO
                                             ELSE E.BADF]
                 /\ UNCHANGED <<mem, allocated, fds, sent, peer_closed,
                                nsends, handles, crashed>>

----------------------------------------------------------------------------
(* The service (groupd) at the other end of the socket *)

groupd_send(fd, line) ==
    /\ ~crashed
    /\ fd \in fds
    /\ ~peer_closed[fd]
    /\ nsends < MaxSends
    /\ nsends' = nsends + 1
    /\ inbox' = [inbox EXCEPT ![fd] = Append(@, line)]
    /\ UNCHANGED <<mem, allocated, fds, sent, peer_closed, handles, last,
                   crashed>>

groupd_close(fd) ==
    /\ ~crashed
    /\ fd \in fds
    /\ ~peer_closed[fd]
    /\ peer_closed' = [peer_closed EXCEPT ![fd] = TRUE]
    /\ UNCHANGED <<mem, allocated, fds, sent, inbox, nsends, handles, last,
                   crashed>>

----------------------------------------------------------------------------
(* The application *)

\* The caller stores other functions in its own group_callbacks_t.
set_callbacks(c) ==
    /\ ~crashed
    /\ c # caller_cbs
    /\ caller_cbs' = c
    /\ UNCHANGED <<mem, allocated, fds, sent, inbox, peer_closed, nsends,
                   handles, last, crashed>>

----------------------------------------------------------------------------

JoinStep ==
    /\ UNCHANGED caller_cbs
    /\ \E i \in 0..Len(handles), name \in GroupNames : group_join(i, name)

LeaveStep ==
    /\ UNCHANGED caller_cbs
    /\ \E i \in 0..Len(handles), name \in GroupNames : group_leave(i, name)

DoneStep ==
    /\ UNCHANGED caller_cbs
    /\ \E i \in 0..Len(handles), name \in GroupNames, nr \in EventNumbers :
           group_done(i, name, nr)

\* cbs points to the caller's object: *cbs is what that object holds.
InitStep ==
    /\ UNCHANGED caller_cbs
    /\ \E in \in {x \in InitInputs : x.cbs = caller_cbs} : group_init(in)

CallerStep == \E c \in CallbackSets : set_callbacks(c)

ExitStep ==
    /\ UNCHANGED caller_cbs
    /\ \E i \in 0..Len(handles) : group_exit(i)

GetFdStep ==
    /\ UNCHANGED caller_cbs
    /\ \E i \in 0..Len(handles) : group_get_fd(i)

DispatchStep ==
    /\ UNCHANGED caller_cbs
    /\ \E i \in 0..Len(handles) : group_dispatch(i)

SendStep ==
    /\ UNCHANGED caller_cbs
    /\ \E fd \in Fds, line \in (IF nsends = 0 THEN EventLines ELSE LaterLines) :
           groupd_send(fd, line)

CloseStep ==
    /\ UNCHANGED caller_cbs
    /\ \E fd \in Fds : groupd_close(fd)

Next ==
    \/ JoinStep
    \/ LeaveStep
    \/ DoneStep
    \/ InitStep
    \/ ExitStep
    \/ GetFdStep
    \/ DispatchStep
    \/ SendStep
    \/ CloseStep
    \/ CallerStep

Spec == Init /\ [][Next]_vars

----------------------------------------------------------------------------
(* Vocabulary of the properties *)

Commands == {"group_join", "group_leave", "group_done"}

\* The line a command is documented to write.
CommandLine(op, name, nr) ==
    IF op = "group_join" THEN STR_join \o name
    ELSE IF op = "group_leave" THEN STR_leave \o name
    ELSE STR_done \o name \o <<" ">> \o Decimal(nr)

\* The actions that have a handler.
Actions == {STR_stop, STR_start, STR_finish, STR_terminate, STR_set_id}

\* The characters of a line before its first blank.
RECURSIVE FirstToken(_)
FirstToken(line) ==
    IF line = <<>> \/ Head(line) = " " THEN <<>>
    ELSE <<Head(line)>> \o FirstToken(Tail(line))

\* The function a callback set holds for an action.
HandlerFor(cbs, act) ==
    IF act = STR_stop THEN cbs.stop
    ELSE IF act = STR_start THEN cbs.start
    ELSE IF act = STR_finish THEN cbs.finish
    ELSE IF act = STR_terminate THEN cbs.terminate
    ELSE cbs.set_id

\* The last call was a group_dispatch that passed validation and read a line.
DispatchedLine ==
    /\ last.op = "group_dispatch"
    /\ last.step \in {"return", "fault"}
    /\ last.line # <<>>

\* The handshake line documented for the session behind handle h.
HandshakeLine(h) ==
    STR_setup \o mem[h].prog_name \o <<" ">> \o Decimal(mem[h].level)

----------------------------------------------------------------------------
(* Properties *)

\* C1: a call on a handle on which group_exit has succeeded fails with
\* -1/EINVAL and does no read and no write on the transport.
C1_ClosedHandleRejected ==
    last.stale =>
        /\ last.rv = -1
        /\ last.errno = EINVAL
        /\ last.nread = 0
        /\ last.nwrite = 0

\* C2: when the read of group_dispatch returns 0 (peer closed) or -1 (error),
\* group_dispatch returns a failure and invokes no handler.
C2_ReadFailureReported ==
    (last.op = "group_dispatch" /\ last.step = "return" /\ last.rd <= 0) =>
        /\ last.rv < 0
        /\ last.calls = <<>>

\* C3: the buffer group_join and group_leave hand to write is exactly
\* "join <name>" and "leave <name>", and these are the bytes on the
\* transport when write took them all.
C3_JoinLeaveBytes ==
    (last.op \in {"group_join", "group_leave"} /\ last.step = "write") =>
        /\ last.line = CommandLine(last.op, last.name, last.nr)
        /\ last.rv = Len(last.line) => last.wrote = last.line

\* C4: the buffer group_done hands to write is exactly
\* "done <name> <event_nr>" with the number in decimal, and these are the
\* bytes on the transport when write took them all.
C4_DoneBytes ==
    (last.op = "group_done" /\ last.step = "write") =>
        /\ last.line = CommandLine(last.op, last.name, last.nr)
        /\ last.rv = Len(last.line) => last.wrote = last.line

\* C5: a command returns the length of its line when the whole line reached
\* the transport, and a failure otherwise.
C5_WriteErrorReported ==
    (last.op \in Commands /\ last.step = "write") =>
        IF last.wrote = CommandLine(last.op, last.name, last.nr)
        THEN last.rv = Len(last.wrote)
        ELSE last.rv < 0

\* C6: for a line whose first token is stop, start, finish, terminate or
\* set_id, group_dispatch invokes exactly one handler, the one the session
\* holds for that action.
C6_ExactlyOneHandler ==
    (DispatchedLine /\ FirstToken(last.line) \in Actions) =>
        /\ Len(last.calls) = 1
        /\ last.calls[1].fn = HandlerFor(mem[Handle(last.i)].cbs,
                                         FirstToken(last.line))

\* C7: for a line whose first token is no known action, group_dispatch
\* invokes no handler and returns 0, and the session is still connected:
\* its tag is valid and its descriptor is open.
C7_UnknownDropped ==
    (DispatchedLine /\ FirstToken(last.line) \notin Actions) =>
        /\ last.step = "return"
        /\ last.rv = 0
        /\ last.calls = <<>>
        /\ VALIDATE_HANDLE(Handle(last.i))
        /\ mem[Handle(last.i)].fd \in fds

C7_Witness ==
    /\ last.op = "group_dispatch"
    /\ last.step = "return"
    /\ last.line = LINE_unknown
    /\ last.rv = 0

C9_FailedInitReleases ==
    [][(last'.op = "group_init" /\ last'.rv = NULL) =>
           (fds' = fds /\ allocated' = allocated)]_vars

C9_Witness ==
    /\ last.op = "group_init"
    /\ last.rv = NULL
    /\ last.step = "write"
    /\ last.nwrite = 1

\* C10: when group_init returns a handle, the bytes the service has received
\* on the new connection are exactly the handshake line.
C10_HandshakeWritten ==
    (last.op = "group_init" /\ last.step = "return") =>
        sent[mem[last.rv].fd] = HandshakeLine(last.rv)

\* C11: the descriptor of a session is released once: a group_exit on a
\* handle on which group_exit has already succeeded returns -1 with EINVAL
\* and closes no descriptor, and no call other than group_exit and a failing
\* group_init closes one.
C11_ReleasedOnce ==
    [][/\ ((last'.op = "group_exit" /\ last'.stale) =>
              (last'.rv = -1 /\ last'.errno = EINVAL /\ fds' = fds))
       /\ ((~crashed' /\ last'.op \notin {"group_exit", "group_init"}) =>
              fds' = fds)]_vars

\* C12: every handle the caller holds is connected (its tag is
\* LIBGROUP_MAGIC and its descriptor is open) or closed (its tag is not
\* LIBGROUP_MAGIC and its descriptor is not open).
C12_ConnectedOrClosed ==
    \A k \in DOMAIN handles :
        (mem[handles[k].h].magic = LIBGROUP_MAGIC)
            <=> (mem[handles[k].h].fd \in fds)

\* C13: a call of group_join, group_leave, group_done, group_exit,
\* group_get_fd or group_dispatch with a NULL handle, or with a handle whose
\* tag is not LIBGROUP_MAGIC when the call is made, returns -1 with EINVAL,
\* does no read and no write, invokes no handler and leaves every struct,
\* every descriptor and every connection as it was.
C13_ValidatedFirst ==
    [][\A i \in 0..Len(handles) :
          (/\ i = 0 \/ mem[handles[i].h].magic # LIBGROUP_MAGIC
           /\ \/ \E name \in GroupNames :
                    \/ group_join(i, name)
                    \/ group_leave(i, name)
                    \/ \E event_nr \in EventNumbers :
                           group_done(i, name, event_nr)
              \/ group_exit(i)
              \/ group_get_fd(i)
              \/ group_dispatch(i))
          => /\ last'.rv = -1
             /\ last'.errno = EINVAL
             /\ last'.nread = 0
             /\ last'.nwrite = 0
             /\ last'.calls = <<>>
             /\ UNCHANGED <<mem, allocated, fds, sent, inbox, peer_closed,
                            handles, crashed>>]_vars

\* group_dispatch was refused on a handle that is not NULL.
C13_Witness ==
    /\ last.op = "group_dispatch"
    /\ last.i > 0
    /\ last.step = "validate"
    /\ last.rv = -1
    /\ last.errno = EINVAL

\* C14: when group_init returns a handle, the name in the struct and the
\* name in the handshake line handed to write are both the prog_name
\* argument cut to at most PROG_NAME_SIZE characters.
C14_NameTruncated ==
    (last.op = "group_init" /\ last.step = "return") =>
        LET cut == SubSeq(last.name, 1, Min(Len(last.name), PROG_NAME_SIZE))
        IN  /\ mem[last.rv].prog_name = cut
            /\ last.line = STR_setup \o cut \o <<" ">>
                               \o Decimal(mem[last.rv].level)

\* C15: a command whose line reached the transport whole can be read back:
\* split at blanks, the line is the action word, then the group name,
\* then, for group_done, the event number in decimal, and nothing more.
C15_CommandRoundTrip ==
    (last.op \in Commands /\ last.step = "write"
                          /\ last.rv = Len(last.line)) =>
        LET args == make_args(last.wrote, " ")
            word == CommandLine(last.op, <<>>, 0)
        IN  /\ args.argc = IF last.op = "group_done" THEN 3 ELSE 2
            /\ args.argv[1] \o <<" ">> = SubSeq(word, 1, Len(args.argv[1]) + 1)
            /\ args.argv[2] = last.name
            /\ last.op = "group_done" => atoi(args.argv[3]) = last.nr

\* C16: a group_dispatch whose read returned bytes has done one read, has
\* taken one of the lines the service sent, and has invoked at most one
\* handler.
C16_OneLinePerDispatch ==
    (last.op = "group_dispatch" /\ last.step = "return" /\ last.rd > 0) =>
        /\ last.nread = 1
        /\ last.taken = 1
        /\ Len(last.calls) <= 1

\* C17: a group_join, group_leave or group_done on a connected session (a
\* handle not yet closed, with a valid tag and an open descriptor) does one
\* write and no read, takes nothing from the unread lines, and leaves the
\* struct (tag, descriptor, level, private, callbacks) and the open
\* descriptors as they were.
C17_CommandFrame ==
    [][\A i \in 1..Len(handles) :
          (/\ ~handles[i].exited
           /\ mem[handles[i].h].magic = LIBGROUP_MAGIC
           /\ mem[handles[i].h].fd \in fds
           /\ \E name \in GroupNames :
                  \/ group_join(i, name)
                  \/ group_leave(i, name)
                  \/ \E event_nr \in EventNumbers :
                         group_done(i, name, event_nr))
          => /\ last'.nwrite = 1
             /\ last'.nread = 0
             /\ inbox' = inbox
             /\ mem' = mem
             /\ fds' = fds]_vars

\* C18: for a line whose first token is stop, start, finish, terminate or
\* set_id, group_dispatch returns, the name it passes to a handler is a
\* token of the line, and the count it passes to the start handler is not
\* negative and is the number of ids it passes.
C18_OnlyTokensPresent ==
    (DispatchedLine /\ FirstToken(last.line) \in Actions) =>
        LET args == make_args(last.line, " ") IN
        /\ last.step = "return"
        /\ \A k \in DOMAIN last.calls :
               /\ \E j \in 2..args.argc :
                      last.calls[k].name = args.argv[j]
               /\ last.calls[k].count >= 0
               /\ last.calls[k].count = Len(last.calls[k].nodeids)

\* C19: every handler group_dispatch invokes through a handle that has not
\* been closed is the one the caller's callback set held for the action
\* when that handle's group_init was called, and it gets the private
\* pointer given to that group_init, whatever the caller's set holds now.
C19_CallbacksFixedAtInit ==
    (last.op = "group_dispatch" /\ last.step = "return" /\ ~last.stale) =>
        \A k \in DOMAIN last.calls :
            /\ last.calls[k].fn = HandlerFor(handles[last.i].cbs,
                                             FirstToken(last.line))
            /\ last.calls[k].private = handles[last.i].private

\* A handler was invoked after the caller had changed its callback set.
C19_Witness ==
    /\ last.op = "group_dispatch"
    /\ last.step = "return"
    /\ ~last.stale
    /\ Len(last.calls) = 1
    /\ last.changed

====
